---- MODULE Spec2Model ----
(***************************************************************************)
(* Model of RankedChoiceRunner (src/ranked_choice_runner.py): the          *)
(* instant-runoff tabulation of one position, driven the way               *)
(* RankedChoiceApplication.run and RankedChoiceDisplay drive it (each      *)
(* seat's runoff generator is exhausted before the next seat is pulled).   *)
(*                                                                         *)
(* A ballot object is identified by its index in data; a bucket is the     *)
(* list of ballot indices it holds.  A generator is a record holding its   *)
(* local variables and the place it is suspended at.                       *)
(***************************************************************************)
EXTENDS Integers, Sequences, FiniteSets, TLC

VARIABLES data, candidates, ballot_size, candidates_required, threshold,
          majority, eliminated, winners, notes, outer_pc, gens, raised

vars == <<data, candidates, ballot_size, candidates_required, threshold,
          majority, eliminated, winners, notes, outer_pc, gens, raised>>

config == <<data, candidates, ballot_size, candidates_required, threshold, majority>>

----------------------------------------------------------------------------
(* Bounds and input sets *)

\* The longest ballot list
MaxBallots == 4

\* The candidate names a position may use, in list order
Names == <<"A", "B", "C">>

\* threshold fractions, as <<numerator, denominator>>; the denominators are
\* powers of two, so len(data) * threshold is exact in floating point
Thresholds == {<<1, 4>>, <<1, 2>>, <<1, 1>>}

\* The value of a for loop that ran off the end of a ballot without a break
NoChoice == "<no choice>"

----------------------------------------------------------------------------
(* Helpers over sequences and sets *)

Range(s) == {s[i] : i \in DOMAIN s}

Max(S) == CHOOSE x \in S : \A y \in S : y <= x

Min(S) == CHOOSE x \in S : \A y \in S : x <= y

\* The iteration orders of a set (a Python set of str iterates in hash
\* order, which differs from process to process)
Orders(S) == {s \in [1..Cardinality(S) -> S] : \A i, j \in DOMAIN s : s[i] = s[j] => i = j}

\* The position of a name in the list of names, to enumerate ballot lists
\* up to reordering
NameIndex(n) == CHOOSE i \in DOMAIN Names : Names[i] = n

RECURSIVE BallotCode(_, _)
BallotCode(b, i) ==
    IF i > Len(b) THEN 0 ELSE NameIndex(b[i]) + (Len(Names) + 1) * BallotCode(b, i + 1)

\* The keys of a dict in insertion order: run_election inserts the
\* candidates in list order and del keeps the order of the others
Keys(votes) == SelectSeq(candidates, LAMBDA c : c \in DOMAIN votes)

RECURSIVE SumLen(_, _)
SumLen(votes, S) ==
    IF S = {} THEN 0
    ELSE LET c == CHOOSE x \in S : TRUE IN Len(votes[c]) + SumLen(votes, S \ {c})

\* Total number of ballots over all buckets of a vote dict
TotalVotes(votes) == SumLen(votes, DOMAIN votes)

----------------------------------------------------------------------------
(* Module-level functions of ranked_choice_runner.py *)

\* _copy_vote_dict: a new dict with a copy of every bucket list (the ballot
\* objects, here indices, are shared)
CopyVoteDict(votes) == [c \in DOMAIN votes |-> votes[c]]

\* A copy whose buckets are the list objects of the argument
SharedListsAll(votes) == DOMAIN votes

\* The buckets of the copy made by _copy_vote_dict that are the same list
\* object as the bucket of the argument: none, line 19 copies every list
\* into a new dict
SharedLists(votes) == {}

\* The candidates with the most votes
SelectLargestCandidates(votes) ==
    LET max_votes == Max({Len(votes[c]) : c \in DOMAIN votes})
    IN  {c \in DOMAIN votes : Len(votes[c]) = max_votes}

\* _select_removable_candidates: the candidates with the fewest votes
SelectRemovableCandidates(votes) ==
    LET min_votes == Min({Len(votes[c]) : c \in DOMAIN votes})
    IN  {c \in DOMAIN votes : Len(votes[c]) = min_votes}

\* _compute_tiebreaker_winner: the candidate with the most points when there
\* is exactly one, "None" otherwise; max() of an empty dict raises ValueError
ComputeTiebreakerWinner(tiebreaker_dict) ==
    IF DOMAIN tiebreaker_dict = {} THEN [raised |-> "ValueError", winner |-> "None"]
    ELSE LET max_points == Max({tiebreaker_dict[c] : c \in DOMAIN tiebreaker_dict})
             point_winners == {c \in DOMAIN tiebreaker_dict : tiebreaker_dict[c] = max_points}
         IN  IF Cardinality(point_winners) = 1
             THEN [raised |-> "None", winner |-> CHOOSE c \in point_winners : TRUE]
             ELSE [raised |-> "None", winner |-> "None"]

\* utils.make_ordinal
ORDINAL_SUFFIX_LIST == <<"th", "st", "nd", "rd", "th">>

MakeOrdinal(n) ==
    LET suffix == IF 11 <= (n % 100) /\ (n % 100) <= 13
                  THEN "th"
                  ELSE ORDINAL_SUFFIX_LIST[Min({n % 10, 4}) + 1]
    IN  ToString(n) \o suffix

\* ', '.join(names)
RECURSIVE Join(_)
Join(names) ==
    IF Len(names) = 0 THEN ""
    ELSE IF Len(names) = 1 THEN names[1]
    ELSE names[1] \o ", " \o Join(Tail(names))

----------------------------------------------------------------------------
(* RankedChoiceRunner *)

\* The majority as the ceiling of len(data) * threshold
ComputeMajorityCeil(n, th) == ((n * th[1]) + th[2] - 1) \div th[2]

\* __init__ line 89: int(len(data) * threshold) + 1
ComputeMajority(n, th) == ((n * th[1]) \div th[2]) + 1

\* all() in the place of any(): every bucket exceeds the majority
HasMajorityAll(votes) == \A c \in DOMAIN votes : Len(votes[c]) > majority

\* any(len(ballots) > self._majority for each bucket), lines 176 and 191
HasMajority(votes) == \E c \in DOMAIN votes : Len(votes[c]) > majority

\* The inner loop of _transfer_votes: the first choice of the ballot that is
\* not in self._eliminated, NoChoice when the loop ends without a break
RECURSIVE FirstChoice(_, _, _)
FirstChoice(ballot, elim, i) ==
    IF i > Len(ballot) THEN NoChoice
    ELSE IF ballot[i] \notin elim THEN ballot[i]
    ELSE FirstChoice(ballot, elim, i + 1)

\* One ballot of _transfer_votes without the break of line 231: the ballot is
\* appended to every choice on it that is not eliminated
TransferBallotNoBreak(st, b, elim) ==
    LET targets == Range(data[b]) \ elim IN
    IF st.raised # "None" THEN st
    ELSE IF targets = {} THEN [st EXCEPT !.dropped = @ + 1]
    ELSE IF ~(targets \subseteq DOMAIN st.votes) THEN [st EXCEPT !.raised = "KeyError"]
    ELSE [st EXCEPT !.votes = [c \in DOMAIN st.votes |->
                                 IF c \in targets THEN Append(st.votes[c], b)
                                 ELSE st.votes[c]]]

\* One ballot of _transfer_votes (lines 227-231).  The state of a transfer
\* is [votes, raised, dropped]: dropped counts the ballots appended nowhere.
TransferBallot(st, b, elim) ==
    LET choice == FirstChoice(data[b], elim, 1) IN
    IF st.raised # "None" THEN st
    ELSE IF choice = NoChoice THEN [st EXCEPT !.dropped = @ + 1]
    ELSE IF choice \notin DOMAIN st.votes THEN [st EXCEPT !.raised = "KeyError"]
    ELSE [st EXCEPT !.votes[choice] = Append(@, b)]

RECURSIVE TransferBallots(_, _, _, _)
TransferBallots(st, ballots, i, elim) ==
    IF i > Len(ballots) THEN st
    ELSE TransferBallots(TransferBallot(st, ballots[i], elim), ballots, i + 1, elim)

\* The outer loop of _transfer_votes left after the first eliminated
\* candidate of the iteration: the ballots of the others stay where they are
TransferCandidatesFirstOnly(st, order, k, elim) ==
    IF k > Len(order) \/ k > 1 \/ st.raised # "None" THEN st
    ELSE IF order[k] \notin DOMAIN st.votes
         THEN [st EXCEPT !.raised = "KeyError"]
         ELSE TransferBallots(st, st.votes[order[k]], 1, elim)

\* The outer loop of _transfer_votes over the eliminated candidates, taken
\* in the iteration order `order` (lines 223-231)
RECURSIVE TransferCandidates(_, _, _, _)
TransferCandidates(st, order, k, elim) ==
    IF k > Len(order) \/ st.raised # "None" THEN st
    ELSE IF order[k] \notin DOMAIN st.votes
         THEN [st EXCEPT !.raised = "KeyError"]
         ELSE TransferCandidates(TransferBallots(st, st.votes[order[k]], 1, elim),
                                 order, k + 1, elim)

\* _transfer_votes that scans the ballots against the eliminated set as it was
\* before the call, and updates the set afterwards
TransferVotesStale(votes, order, elim) ==
    LET st == TransferCandidates([votes |-> votes, raised |-> "None", dropped |-> 0],
                                 order, 1, elim)
    IN  [votes |-> st.votes, raised |-> st.raised, dropped |-> st.dropped,
         eliminated |-> elim \cup Range(order)]

\* _transfer_votes(votes, eliminated_candidates) with self._eliminated = elim
\* before the call: the set is updated first, then the ballots move
TransferVotes(votes, order, elim) ==
    LET new_elim == elim \cup Range(order)
        st == TransferCandidates([votes |-> votes, raised |-> "None", dropped |-> 0],
                                 order, 1, new_elim)
    IN  [votes |-> st.votes, raised |-> st.raised, dropped |-> st.dropped,
         eliminated |-> new_elim]

\* The deletion loop left after its first del
DeleteFirstCandidate(votes, S) ==
    IF S \cap DOMAIN votes = {} THEN votes
    ELSE LET first == CHOOSE c \in S \cap DOMAIN votes : TRUE
         IN  [c \in DOMAIN votes \ {first} |-> votes[c]]

\* del votes[c] for every c in S; del of a missing key raises KeyError
DeleteCandidates(votes, S) == [c \in DOMAIN votes \ S |-> votes[c]]

\* ballot.index(winner): 0-based index of the first occurrence, -1 standing
\* for the ValueError that both tiebreakers catch
BallotIndex(ballot, name) ==
    IF \E i \in DOMAIN ballot : ballot[i] = name
    THEN Min({i \in DOMAIN ballot : ballot[i] = name}) - 1
    ELSE -1

\* The points of a ballot counted from the wrong end: the later the
\* candidate is ranked, the more points
BallotPointsReversed(b, winner) ==
    LET winner_index == BallotIndex(data[b], winner)
    IN  IF winner_index = -1 THEN 0 ELSE winner_index + 1

\* The points one ballot gives to a candidate (lines 282-287, 305-310)
BallotPoints(b, winner) ==
    LET winner_index == BallotIndex(data[b], winner)
    IN  IF winner_index = -1 THEN 0 ELSE ballot_size - winner_index

RECURSIVE SumPoints(_, _, _)
SumPoints(ballots, winner, i) ==
    IF i > Len(ballots) THEN 0
    ELSE BallotPoints(ballots[i], winner) + SumPoints(ballots, winner, i + 1)

\* The keys of the defaultdict(int) a tiebreaker builds: a key exists only
\* once some ballot naming the candidate added points to it
NamedOn(ballots, winner) == \E i \in DOMAIN ballots : BallotIndex(data[ballots[i]], winner) # -1

\* _run_first_tiebreaker: points over the ballots of each tied candidate's
\* own bucket
RunFirstTiebreaker(winner_list, votes) ==
    LET keys == {w \in Range(winner_list) : NamedOn(votes[w], w)}
        tiebreaker_dict == [w \in keys |-> SumPoints(votes[w], w, 1)]
    IN  ComputeTiebreakerWinner(tiebreaker_dict)

\* _run_second_tiebreaker: points over all ballots cast
RunSecondTiebreaker(winner_list, all_ballots) ==
    LET keys == {w \in Range(winner_list) : NamedOn(all_ballots, w)}
        tiebreaker_dict == [w \in keys |-> SumPoints(all_ballots, w, 1)]
    IN  ComputeTiebreakerWinner(tiebreaker_dict)

\* Only the first ballot cast
FirstBallotOnly == [i \in 1..1 |-> i]

\* self._data, the list the second tiebreaker is called with (line 251)
AllBallots == [i \in 1..Len(data) |-> i]

\* _run_tiebreaker: [raised, winner, tiebreaker]; RuntimeError when both
\* tiebreakers leave no single winner
RunTiebreaker(winner_list, votes) ==
    LET first == RunFirstTiebreaker(winner_list, votes) IN
    IF first.raised # "None" THEN [raised |-> first.raised, winner |-> "None", tiebreaker |-> 0]
    ELSE IF first.winner # "None" THEN [raised |-> "None", winner |-> first.winner, tiebreaker |-> 1]
    ELSE LET second == RunSecondTiebreaker(winner_list, AllBallots) IN
         IF second.raised # "None"
         THEN [raised |-> second.raised, winner |-> "None", tiebreaker |-> 0]
         ELSE IF second.winner = "None"
         THEN [raised |-> "RuntimeError", winner |-> "None", tiebreaker |-> 0]
         ELSE [raised |-> "None", winner |-> second.winner, tiebreaker |-> 2]

\* The entry added to winners on an unresolved tie (line 212)
TieEntry(winner_list) == "A tie has occurred between " \o Join(winner_list)

\* The note of a tiebreaker win (line 209)
TiebreakerNote(k) == "determined by the " \o MakeOrdinal(k) \o " tiebreaker"

\* self.notes[winner].append(note) on a defaultdict(list)
AddNote(ns, winner, note) ==
    IF winner \in DOMAIN ns THEN [ns EXCEPT ![winner] = Append(@, note)]
    ELSE ns @@ (winner :> <<note>>)

----------------------------------------------------------------------------
(* State after construction *)

\* The ballots a position with the candidate list cs can receive: every slot
\* names a candidate (BallotReader.read skips a ballot with an empty slot).
\* A ballot is a complete ranking, or repeats one name in every slot (the
\* reader does not reject a repeated name)
BallotsOf(cs) ==
    {b \in [1..Len(cs) -> Range(cs)] :
        \/ \A i, j \in DOMAIN b : b[i] = b[j] => i = j
        \/ \A i, j \in DOMAIN b : b[i] = b[j]}

\* Ballot lists are enumerated up to reordering
SortedData(d) == \A i \in 1..(Len(d) - 1) : BallotCode(d[i], 1) <= BallotCode(d[i + 1], 1)

DataOf(cs) == {d \in UNION {[1..k -> BallotsOf(cs)] : k \in 1..MaxBallots} : SortedData(d)}

\* __init__ with a non-empty ballot list and candidates_required <= len(candidates)
Init ==
    \E n \in 1..Len(Names) :
        /\ candidates = SubSeq(Names, 1, n)
        /\ ballot_size = n
        /\ data \in DataOf(SubSeq(Names, 1, n))
        /\ candidates_required \in 0..n
        /\ threshold \in Thresholds
        /\ majority = ComputeMajority(Len(data), threshold)
        /\ eliminated = {}
        /\ winners = {}
        /\ notes = <<>>
        /\ outer_pc = "running"
        /\ gens = <<>>
        /\ raised = "None"

----------------------------------------------------------------------------
(* run_election: one resumption of the outer generator *)

\* The generator the caller is consuming
cur == gens[Len(gens)]

\* A caller that pulls the next seat whatever the state of the current one
CallerPullsSeatAnyTime ==
    /\ raised = "None"
    /\ outer_pc = "running"

\* The caller pulls the next seat only after it exhausted the current one
\* (RankedChoiceApplication.run, RankedChoiceDisplay.run_election_display)
CallerPullsSeat ==
    /\ raised = "None"
    /\ outer_pc = "running"
    /\ gens # <<>> => cur.pc = "done"

\* The initial distribution keyed by the last slot of the ballot, ballot[-1]
InitialVotesLastSlot ==
    [c \in Range(candidates) |-> SelectSeq(AllBallots, LAMBDA b : data[b][Len(data[b])] = c)]

\* Lines 141-148: every candidate gets an empty bucket, every ballot goes to
\* the bucket of ballot[0]
InitialVotes ==
    [c \in Range(candidates) |-> SelectSeq(AllBallots, LAMBDA b : data[b][1] = c)]

\* Seeding that leaves the winners' buckets in the distribution
SeedSeatKeepWinners(order) == TransferVotes(InitialVotes, order, {})

\* Seeding without the clear() of line 151
SeedSeatNoClear(order) ==
    LET t == TransferVotes(InitialVotes, order, eliminated)
    IN  [t EXCEPT !.votes = DeleteCandidates(t.votes, winners)]

\* Lines 141-155, with the winners iterated in the order `order`
SeedSeat(order) ==
    IF \E b \in DOMAIN data : data[b][1] \notin Range(candidates)
    THEN [votes |-> <<>>, raised |-> "KeyError", dropped |-> 0, eliminated |-> eliminated]
    ELSE LET t == TransferVotes(InitialVotes, order, {})
         IN  IF t.raised # "None" THEN t
             ELSE [t EXCEPT !.votes = DeleteCandidates(t.votes, winners)]

\* The body of the for loop of run_election, when seeding does not raise
YieldSeat ==
    /\ Len(gens) < candidates_required
    /\ \E order \in Orders(winners) :
          LET s == SeedSeat(order) IN
          /\ s.raised = "None"
          /\ eliminated' = s.eliminated
          /\ gens' = Append(gens, [pc |-> "start", votes |-> s.votes,
                                   has_majority |-> FALSE, stages |-> <<>>,
                                   shared |-> <<>>,
                                   exhausted |-> s.dropped,
                                   winner_list |-> <<>>, outcome |-> "None"])
    /\ UNCHANGED <<config, winners, notes, outer_pc, raised>>

\* A seat is seeded and its runoff generator is yielded (line 157)
RunElectionYield == CallerPullsSeat /\ YieldSeat

\* The body of the for loop of run_election, when seeding raises
RaiseInSeeding ==
    /\ Len(gens) < candidates_required
    /\ \E order \in Orders(winners) :
          LET s == SeedSeat(order) IN
          /\ s.raised # "None"
          /\ eliminated' = s.eliminated
          /\ raised' = s.raised
    /\ outer_pc' = "raised"
    /\ UNCHANGED <<config, winners, notes, gens>>

\* Seeding a seat raises out of run_election
RunElectionRaise == CallerPullsSeat /\ RaiseInSeeding

\* The for loop of run_election ends
LoopExhausted ==
    /\ Len(gens) >= candidates_required
    /\ outer_pc' = "done"
    /\ UNCHANGED <<config, eliminated, winners, notes, gens, raised>>

\* The range of line 140 is used up: run_election returns
RunElectionReturn == CallerPullsSeat /\ LoopExhausted

----------------------------------------------------------------------------
(* _runoff_generator: one resumption of the current seat's generator *)

CallerPullsSnapshot ==
    /\ raised = "None"
    /\ gens # <<>>

\* has_majority as the loop test of line 178 reads it: computed at line 176
\* after the first snapshot, at line 191 before every later one
LoopHasMajority(g) == IF g.pc = "y174" THEN HasMajority(g.votes) ELSE g.has_majority

\* The loop left as soon as two candidates share the minimum
FullTieAnyTie(votes) == Cardinality(SelectRemovableCandidates(votes)) > 1

\* The loop left on a tie only when several candidates are tied
FullTieSeveral(votes) ==
    /\ Cardinality(DOMAIN votes) > 1
    /\ Cardinality(SelectRemovableCandidates(votes)) = Cardinality(DOMAIN votes)

\* Line 182
FullTie(votes) == Cardinality(SelectRemovableCandidates(votes)) = Cardinality(DOMAIN votes)

\* The snapshots emitted by generator g as their holder sees them once the
\* working buckets have become new_votes: a bucket that is the same list
\* object as the working bucket shows the ballots appended to it in place
SeenThrough(g, new_votes) ==
    [i \in DOMAIN g.stages |->
        [c \in DOMAIN g.stages[i] |->
            IF c \in g.shared[i] /\ c \in DOMAIN new_votes
            THEN new_votes[c] ELSE g.stages[i][c]]]

\* Line 174: the first snapshot, of the generator of seat k
RunoffStartOf(k) ==
    /\ gens[k].pc = "start"
    /\ gens' = [gens EXCEPT ![k] =
                   [@ EXCEPT !.pc = "y174",
                             !.stages = Append(@, CopyVoteDict(gens[k].votes)),
                             !.shared = Append(@, SharedLists(gens[k].votes))]]
    /\ UNCHANGED <<config, eliminated, winners, notes, outer_pc, raised>>

RunoffStart == CallerPullsSnapshot /\ RunoffStartOf(Len(gens))

\* Lines 178-193: one elimination round of the generator of seat k, up to
\* the next snapshot
RunoffRoundOf(k) ==
    /\ gens[k].pc \in {"y174", "y193"}
    /\ ~LoopHasMajority(gens[k])
    /\ DOMAIN gens[k].votes # {}
    /\ ~FullTie(gens[k].votes)
    /\ \E order \in Orders(SelectRemovableCandidates(gens[k].votes)) :
          LET t == TransferVotes(gens[k].votes, order, eliminated)
              votes == DeleteCandidates(t.votes, Range(order))
          IN  /\ eliminated' = t.eliminated
              /\ IF t.raised # "None"
                 THEN /\ raised' = t.raised
                      /\ gens' = [gens EXCEPT ![k] = [@ EXCEPT !.pc = "raised"]]
                 ELSE /\ raised' = raised
                      /\ gens' = [gens EXCEPT ![k] =
                                    [@ EXCEPT !.pc = "y193",
                                              !.votes = votes,
                                              !.has_majority = HasMajority(votes),
                                              !.stages = Append(SeenThrough(gens[k], t.votes),
                                                                CopyVoteDict(votes)),
                                              !.shared = Append(@, SharedLists(votes)),
                                              !.exhausted = @ + t.dropped]]
    /\ UNCHANGED <<config, winners, notes, outer_pc>>

RunoffRound == CallerPullsSnapshot /\ RunoffRoundOf(Len(gens))

\* The winner candidates taken as those with the fewest ballots
WinnerListFewest(votes) ==
    LET min_ballots == Min({Len(votes[c]) : c \in DOMAIN votes})
    IN  SelectSeq(Keys(votes), LAMBDA c : Len(votes[c]) = min_ballots)

\* Lines 196-198
WinnerList(votes) ==
    LET max_ballots == Max({Len(votes[c]) : c \in DOMAIN votes})
    IN  SelectSeq(Keys(votes), LAMBDA c : Len(votes[c]) = max_ballots)

\* Lines 195-212: what the end of the generator does to the runner;
\* [raised, winner_list, winner, note] with note = 0 for no note
DeclareOutcome(votes) ==
    IF DOMAIN votes = {}
    THEN [raised |-> "ValueError", winner_list |-> <<>>, winner |-> "None", note |-> 0]
    ELSE LET winner_list == WinnerList(votes)
             tb == RunTiebreaker(winner_list, votes)
         IN  IF Len(winner_list) = 1
             THEN [raised |-> "None", winner_list |-> winner_list,
                   winner |-> winner_list[1], note |-> 0]
             ELSE IF tb.raised = "None"
             THEN [raised |-> "None", winner_list |-> winner_list,
                   winner |-> tb.winner, note |-> tb.tiebreaker]
             ELSE IF tb.raised = "RuntimeError"
             THEN [raised |-> "None", winner_list |-> winner_list,
                   winner |-> TieEntry(winner_list), note |-> 0]
             ELSE [raised |-> tb.raised, winner_list |-> winner_list,
                   winner |-> "None", note |-> 0]

\* The loop ends (majority, or everybody left is tied) and the generator
\* of seat k runs to its end
RunoffFinishOf(k) ==
    /\ gens[k].pc \in {"y174", "y193"}
    /\ LoopHasMajority(gens[k]) \/ DOMAIN gens[k].votes = {} \/ FullTie(gens[k].votes)
    /\ LET o == DeclareOutcome(gens[k].votes) IN
       IF o.raised # "None"
       THEN /\ raised' = o.raised
            /\ gens' = [gens EXCEPT ![k] =
                          [@ EXCEPT !.pc = "raised",
                                    !.has_majority = LoopHasMajority(gens[k]),
                                    !.winner_list = o.winner_list]]
            /\ UNCHANGED <<winners, notes>>
       ELSE /\ raised' = raised
            /\ gens' = [gens EXCEPT ![k] =
                          [@ EXCEPT !.pc = "done",
                                    !.has_majority = LoopHasMajority(gens[k]),
                                    !.winner_list = o.winner_list,
                                    !.outcome = o.winner]]
            /\ winners' = winners \cup {o.winner}
            /\ notes' = IF o.note = 0 THEN notes
                        ELSE AddNote(notes, o.winner, TiebreakerNote(o.note))
    /\ UNCHANGED <<config, eliminated, outer_pc>>

RunoffFinish == CallerPullsSnapshot /\ RunoffFinishOf(Len(gens))

Next ==
    \/ RunElectionYield
    \/ RunElectionRaise
    \/ RunElectionReturn
    \/ RunoffStart
    \/ RunoffRound
    \/ RunoffFinish

Spec == Init /\ [][Next]_vars

----------------------------------------------------------------------------
(* Notions the properties are stated with *)

\* The first name on a ballot, from index 0, that is not in S; NoChoice when
\* every name on the ballot is in S
FirstNameNotIn(ballot, S) ==
    IF \A i \in DOMAIN ballot : ballot[i] \in S THEN NoChoice
    ELSE ballot[Min({i \in DOMAIN ballot : ballot[i] \notin S})]

\* How many times ballot b occurs in a bucket
Occurrences(bucket, b) == Cardinality({i \in DOMAIN bucket : bucket[i] = b})

\* The generator is suspended right after it emitted a snapshot
AtSnapshot(g) == g.pc \in {"y174", "y193"}

LastStage(g) == g.stages[Len(g.stages)]

\* The candidates eliminated by the round that produced stage r of g
EliminatedInRound(g, r) == DOMAIN g.stages[r - 1] \ DOMAIN g.stages[r]

----------------------------------------------------------------------------
(* C1 *)

\* C1: after every elimination round, each ballot that was held by a
\* candidate eliminated in that round sits in the bucket of the first name
\* on it that is not in the cumulative eliminated set (and nowhere when there
\* is no such name); that set holds the candidates eliminated in this round
\* and in every earlier round of the seat, no bucket of an eliminated
\* candidate is left to receive a ballot, every ballot a bucket gained came
\* from an eliminated candidate, and the transfer never fails to find the
\* target bucket.
C1_TransferToFirstNonEliminated ==
    gens # <<>> =>
      /\ cur.pc = "raised" => raised # "KeyError"
      /\ cur.pc = "y193" =>
           LET n == Len(cur.stages)
               prev == cur.stages[n - 1]
               now == cur.stages[n]
               E == EliminatedInRound(cur, n)
           IN  /\ E # {}
               /\ \A r \in 2..n : EliminatedInRound(cur, r) \subseteq eliminated
               /\ DOMAIN now \cap eliminated = {}
               /\ \A c \in E : \A i \in DOMAIN prev[c] :
                     LET b == prev[c][i]
                         target == FirstNameNotIn(data[b], eliminated)
                     IN  \A x \in DOMAIN now :
                            Occurrences(now[x], b) = IF x = target THEN 1 ELSE 0
               /\ \A x \in DOMAIN now : \A b \in Range(now[x]) \ Range(prev[x]) :
                     \E c \in E : b \in Range(prev[c])

\* A round in which two candidates were eliminated together and a ballot of
\* one of them, naming the other second, went to its third name
C1_Witness ==
    /\ gens # <<>>
    /\ cur.pc = "y193"
    /\ LET n == Len(cur.stages)
           prev == cur.stages[n - 1]
           now == cur.stages[n]
           E == EliminatedInRound(cur, n)
       IN  /\ Cardinality(E) = 2
           /\ \E c \in E : \E i \in DOMAIN prev[c] :
                 LET b == prev[c][i] IN
                 /\ Len(data[b]) = 3
                 /\ data[b][1] = c
                 /\ data[b][2] \in E \ {c}
                 /\ data[b][3] \in DOMAIN now
                 /\ b \in Range(now[data[b][3]])

----------------------------------------------------------------------------
(* C2 *)

\* The candidates that are out of the race at a snapshot: elected for an
\* earlier seat or eliminated in this one
OutAt(snap) == Range(candidates) \ DOMAIN snap

\* The ballots on which no name is left in the race at a snapshot
ExhaustedAt(snap) == {b \in DOMAIN data : FirstNameNotIn(data[b], OutAt(snap)) = NoChoice}

\* C2: at every snapshot emitted for a seat, the ballots summed over all
\* buckets plus the ballots exhausted so far (those the transfers dropped
\* because every name on them is out of the race) are the original ballots of
\* the position, and no ballot is counted twice.
C2_Conservation ==
    \A k \in DOMAIN gens :
       /\ \A r \in DOMAIN gens[k].stages :
             LET snap == gens[k].stages[r] IN
             /\ TotalVotes(snap) + Cardinality(ExhaustedAt(snap)) = Len(data)
             /\ \A b \in DOMAIN data : \A x, y \in DOMAIN snap :
                   /\ Occurrences(snap[x], b) <= 1
                   /\ (b \in Range(snap[x]) /\ b \in Range(snap[y])) => x = y
       /\ gens[k].stages # <<>> =>
             gens[k].exhausted = Cardinality(ExhaustedAt(LastStage(gens[k])))

\* A snapshot after an elimination round that dropped a ballot while other
\* ballots are still counted
C2_Witness ==
    \E k \in DOMAIN gens :
       /\ Len(gens[k].stages) >= 2
       /\ TotalVotes(LastStage(gens[k])) > 0
       /\ gens[k].exhausted > 0
       /\ ExhaustedAt(gens[k].stages[1]) = {}

----------------------------------------------------------------------------
(* C3 *)

\* C3: at every snapshot of a seat the bucket keys are the candidates that
\* are neither elected for an earlier seat nor eliminated in this seat, and
\* every ballot is exactly once in the bucket of the first name on it that is
\* neither, and in no other bucket (in no bucket at all when it is exhausted).
C3_ExactlyOneBucket ==
    (gens # <<>> /\ AtSnapshot(cur)) =>
       LET snap == LastStage(cur)
           out == winners \cup eliminated
       IN  /\ DOMAIN snap = (Range(candidates) \ winners) \ eliminated
           /\ \A b \in DOMAIN data : \A x \in DOMAIN snap :
                 Occurrences(snap[x], b) =
                    IF x = FirstNameNotIn(data[b], out) THEN 1 ELSE 0

\* A snapshot of the second seat after a round: a ballot that names the first
\* seat's winner first and the eliminated candidate second is in the bucket
\* of its third name
C3_Witness ==
    /\ Len(gens) = 2
    /\ cur.pc = "y193"
    /\ \E b \in DOMAIN data :
          /\ Len(data[b]) = 3
          /\ data[b][1] \in winners
          /\ data[b][2] \in eliminated \ winners
          /\ data[b][3] \in DOMAIN LastStage(cur)
          /\ b \in Range(LastStage(cur)[data[b][3]])

----------------------------------------------------------------------------
(* C4 *)

\* C4: every seat's runoff is finite: every round removes at least one
\* candidate and leaves at least one, so a seat has at most
\* candidates_running - 1 elimination rounds and at most candidates_running
\* snapshots, and a runoff that has ended has declared an outcome.
C4_TerminatesWithOutcome ==
    \A k \in DOMAIN gens :
       LET g == gens[k] IN
       /\ Len(g.stages) <= Len(candidates)
       /\ \A r \in 2..Len(g.stages) :
             /\ EliminatedInRound(g, r) # {}
             /\ DOMAIN g.stages[r] # {}
             /\ DOMAIN g.stages[r] \subseteq DOMAIN g.stages[r - 1]
       /\ (g.pc \notin {"start", "y174", "y193"}) =>
             (g.pc = "done" /\ g.outcome \in winners)

----------------------------------------------------------------------------
(* C5 *)

\* Some bucket of the snapshot is larger than the majority
ExceedsMajority(snap) == \E c \in DOMAIN snap : Len(snap[c]) > majority

\* C5: once a snapshot of a seat has a bucket larger than majority, that
\* seat's generator emits no further snapshot and its distribution is not
\* changed any more; the resumption after that snapshot ends the generator
\* without eliminating anybody.
C5_MajorityStopsLoop ==
    [][\A k \in DOMAIN gens :
          (gens[k].stages # <<>> /\ ExceedsMajority(LastStage(gens[k]))) =>
             /\ gens'[k].stages = gens[k].stages
             /\ gens'[k].votes = gens[k].votes
             /\ (k = Len(gens) /\ AtSnapshot(gens[k]) /\ gens' # gens) =>
                   /\ eliminated' = eliminated
                   /\ gens'[k].pc \in {"done", "raised"}]_vars

\* A seat that ended at a snapshot with a majority while another candidate,
\* holding fewer ballots, was still in the race and was not eliminated
C5_Witness ==
    /\ gens # <<>>
    /\ cur.pc = "done"
    /\ ExceedsMajority(LastStage(cur))
    /\ \E c \in DOMAIN LastStage(cur) :
          /\ Len(LastStage(cur)[c]) > 0
          /\ ~(Len(LastStage(cur)[c]) > majority)
    /\ DOMAIN cur.votes = DOMAIN LastStage(cur)

----------------------------------------------------------------------------
(* C6 *)

\* The candidates with the fewest votes in a distribution
MinimumSet(votes) == {c \in DOMAIN votes : \A d \in DOMAIN votes : Len(votes[c]) <= Len(votes[d])}

\* The generator is about to run the loop test on a distribution without a
\* majority
NoMajorityAtSnapshot(g) == AtSnapshot(g) /\ ~ExceedsMajority(g.votes)

\* C6: when no bucket exceeds majority and all remaining candidates have
\* equal bucket sizes, the next resumption ends the loop without eliminating
\* anyone and the winner candidates are all the remaining candidates: a single
\* remaining candidate wins without a note, several go to the tiebreaker
\* procedure (which names one of them with a note, records the tie between
\* all of them, or fails).  When the minimum-vote set is a strict subset of
\* the remaining candidates, the resumption eliminates exactly that set and
\* emits the next snapshot.
C6_FullTieStopsLoop ==
    [][(gens # <<>> /\ NoMajorityAtSnapshot(cur) /\ gens' # gens) =>
          LET g == gens'[Len(gens)]
              remaining == DOMAIN cur.votes
          IN  IF MinimumSet(cur.votes) = remaining
              THEN /\ g.stages = cur.stages
                   /\ g.votes = cur.votes
                   /\ eliminated' = eliminated
                   /\ g.pc \in {"done", "raised"}
                   /\ Range(g.winner_list) = remaining
                   /\ Cardinality(remaining) = 1 =>
                         /\ g.pc = "done"
                         /\ g.outcome \in remaining
                         /\ notes' = notes
                   /\ Cardinality(remaining) > 1 =>
                         \/ g.pc = "raised"
                         \/ /\ g.outcome \in remaining
                            /\ g.outcome \in DOMAIN notes'
                            /\ notes' # notes
                         \/ /\ g.outcome = TieEntry(Keys(cur.votes))
                            /\ notes' = notes
              ELSE /\ g.pc = "y193"
                   /\ Len(g.stages) = Len(cur.stages) + 1
                   /\ DOMAIN g.votes = remaining \ MinimumSet(cur.votes)
                   /\ eliminated' = eliminated \cup MinimumSet(cur.votes)]_vars

\* After a round eliminated the candidate with the fewest votes, the two
\* candidates left were tied below the majority and the seat ended there
C6_Witness ==
    /\ gens # <<>>
    /\ cur.pc = "done"
    /\ Len(cur.stages) = 2
    /\ ~ExceedsMajority(LastStage(cur))
    /\ Len(cur.winner_list) = 2
    /\ Range(cur.winner_list) = DOMAIN LastStage(cur)

----------------------------------------------------------------------------
(* C7 *)

\* C7: the resumption that exhausts a seat's sub-sequence leaves winners
\* exactly one entry larger than it was before that resumption.
C7_OneWinnerPerSeat ==
    [][\A k \in DOMAIN gens :
          (AtSnapshot(gens[k]) /\ gens'[k].pc = "done") =>
             /\ winners \subseteq winners'
             /\ Cardinality(winners') = Cardinality(winners) + 1]_vars

\* Three seats were consumed to the end
C7_Witness ==
    /\ Len(gens) = 3
    /\ \A k \in DOMAIN gens : gens[k].pc = "done"
    /\ Cardinality(winners) = 3

----------------------------------------------------------------------------
(* C8 *)

\* C8: the outcomes declared for the seats of a position are pairwise
\* different, winners holds exactly the declared outcomes, and the outcome of
\* a seat is a bucket key of no snapshot and of no working distribution of a
\* later seat, so that it cannot receive a ballot there.
C8_MultiSeatExclusivity ==
    /\ winners = {gens[k].outcome : k \in {j \in DOMAIN gens : gens[j].pc = "done"}}
    /\ \A j, k \in DOMAIN gens :
          (j < k /\ gens[j].pc = "done") =>
             /\ gens[k].outcome # gens[j].outcome
             /\ gens[j].outcome \notin DOMAIN gens[k].votes
             /\ \A r \in DOMAIN gens[k].stages :
                   gens[j].outcome \notin DOMAIN gens[k].stages[r]

\* The second seat ran a round and ended although the ballots all name the
\* first seat's winner first
C8_Witness ==
    /\ Len(gens) = 2
    /\ cur.pc = "done"
    /\ Len(cur.stages) >= 2
    /\ \A b \in DOMAIN data : data[b][1] = gens[1].outcome
    /\ cur.outcome \in Range(candidates)

----------------------------------------------------------------------------
(* C9 *)

\* The outcomes of the seats before seat k
PreviousWinners(k) == {gens[j].outcome : j \in 1..(k - 1)}

\* C9: the first snapshot of every seat is built from all the original
\* ballots: for seat 1 the bucket of c is the list of the ballots with
\* ballot[0] = c, for a later seat the buckets are those of the candidates
\* not elected yet and the bucket of c holds, once each, the ballots whose
\* first name that is not a previous winner is c; when the seat starts the
\* eliminated set holds the previous winners only.
C9_SeatSeeding ==
    \A k \in DOMAIN gens :
       /\ gens[k].stages # <<>> =>
            LET first == gens[k].stages[1] IN
            /\ DOMAIN first = Range(candidates) \ PreviousWinners(k)
            /\ \A c \in DOMAIN first : \A b \in DOMAIN data :
                  Occurrences(first[c], b) =
                     IF FirstNameNotIn(data[b], PreviousWinners(k)) = c THEN 1 ELSE 0
            /\ k = 1 => \A c \in DOMAIN first :
                  first[c] = SelectSeq(AllBallots, LAMBDA b : data[b][1] = c)
       /\ (k = Len(gens) /\ gens[k].pc \in {"start", "y174"}) =>
            eliminated = PreviousWinners(k)

\* The first snapshot of a second seat that follows a seat with an
\* elimination round: a ballot naming the winner first and the candidate
\* eliminated in seat 1 second is in the bucket of that candidate
C9_Witness ==
    /\ Len(gens) = 2
    /\ cur.pc = "y174"
    /\ Len(gens[1].stages) >= 2
    /\ \E b \in DOMAIN data :
          /\ Len(data[b]) = 3
          /\ data[b][1] = gens[1].outcome
          /\ data[b][2] \notin DOMAIN LastStage(gens[1])
          /\ data[b][2] \in DOMAIN cur.stages[1]
          /\ b \in Range(cur.stages[1][data[b][2]])

----------------------------------------------------------------------------
(* C10 *)

----------------------------------------------------------------------------
(* Notions of the tiebreaker properties *)

\* The candidates sharing the largest bucket of a distribution
MaxBucketSet(votes) == {c \in DOMAIN votes : \A d \in DOMAIN votes : Len(votes[d]) <= Len(votes[c])}

\* The point value of one ballot for candidate c: ballot_size minus the
\* 0-based rank of c on it, zero when the ballot does not name c
PointValue(ballot, c) ==
    IF c \notin Range(ballot) THEN 0
    ELSE ballot_size - (Min({i \in DOMAIN ballot : ballot[i] = c}) - 1)

\* The point total of c over a list of ballots
RECURSIVE PointTotal(_, _)
PointTotal(ballots, c) ==
    IF ballots = <<>> THEN 0
    ELSE PointValue(data[Head(ballots)], c) + PointTotal(Tail(ballots), c)

\* The candidates of S with the largest first-tiebreaker total (own bucket)
FirstTiebreakerBest(votes, S) ==
    {c \in S : \A d \in S : PointTotal(votes[d], d) <= PointTotal(votes[c], c)}

\* The candidates of S with the largest second-tiebreaker total (all ballots)
SecondTiebreakerBest(S) ==
    LET cast == [i \in DOMAIN data |-> i]
    IN  {c \in S : \A d \in S : PointTotal(cast, d) <= PointTotal(cast, c)}

\* notes after one note was appended to the list of winner w
NotesWith(ns, w, note) ==
    /\ DOMAIN notes' = DOMAIN ns \cup {w}
    /\ \A x \in DOMAIN ns \ {w} : notes'[x] = ns[x]
    /\ notes'[w] = (IF w \in DOMAIN ns THEN ns[w] ELSE <<>>) \o <<note>>

\* Generator k runs to its end in this step
EndsNow(k) == AtSnapshot(gens[k]) /\ gens'[k].pc \in {"done", "raised"}

----------------------------------------------------------------------------
(* C11 *)

\* C11: when a seat ends with several candidates sharing the maximum bucket
\* size and exactly one of them has the largest point total over the ballots
\* of its own bucket (ballot_size minus the index of the candidate on the
\* ballot), that candidate is added to winners and gets the note
\* "determined by the 1st tiebreaker".
C11_FirstTiebreaker ==
    [][\A k \in DOMAIN gens :
          LET tied == MaxBucketSet(gens[k].votes)
              best == FirstTiebreakerBest(gens[k].votes, tied)
          IN  (EndsNow(k) /\ Cardinality(tied) > 1 /\ Cardinality(best) = 1) =>
                 /\ gens'[k].pc = "done"
                 /\ gens'[k].outcome \in best
                 /\ winners' = winners \cup best
                 /\ NotesWith(notes, gens'[k].outcome, "determined by the 1st tiebreaker")]_vars

\* A second seat ended by the first tiebreaker: both candidates held one
\* ballot, and the winner's ballot ranks it higher than the loser's ranks the
\* loser
C11_Witness ==
    /\ Len(gens) = 2
    /\ cur.pc = "done"
    /\ Len(cur.winner_list) = 2
    /\ cur.outcome \in DOMAIN notes
    /\ notes[cur.outcome] = <<"determined by the 1st tiebreaker">>
    /\ \E c \in Range(cur.winner_list) :
          PointTotal(cur.votes[c], c) < PointTotal(cur.votes[cur.outcome], cur.outcome)

----------------------------------------------------------------------------
(* A position with four candidates *)

\* The longest ballot list of the four-candidate position
MaxBallots4 == 3

Names4 == <<"A", "B", "C", "D">>

NameIndex4(n) == CHOOSE i \in DOMAIN Names4 : Names4[i] = n

RECURSIVE BallotCode4(_, _)
BallotCode4(b, i) ==
    IF i > Len(b) THEN 0 ELSE NameIndex4(b[i]) + (Len(Names4) + 1) * BallotCode4(b, i + 1)

\* The ballots of the four-candidate position: complete rankings on which
\* "D" is the second or the last choice
Rankings4 ==
    {b \in [1..Len(Names4) -> Range(Names4)] :
        /\ \A i, j \in DOMAIN b : b[i] = b[j] => i = j
        /\ b[2] = "D" \/ b[4] = "D"}

\* Ballot lists are enumerated up to reordering
Data4 ==
    {d \in UNION {[1..k -> Rankings4] : k \in 1..MaxBallots4} :
        \A i \in 1..(Len(d) - 1) : BallotCode4(d[i], 1) <= BallotCode4(d[i + 1], 1)}

\* __init__ for the four-candidate position
Init4 ==
    /\ candidates = Names4
    /\ ballot_size = Len(Names4)
    /\ data \in Data4
    /\ candidates_required \in 1..3
    /\ threshold \in Thresholds
    /\ majority = ComputeMajority(Len(data), threshold)
    /\ eliminated = {}
    /\ winners = {}
    /\ notes = <<>>
    /\ outer_pc = "running"
    /\ gens = <<>>
    /\ raised = "None"

Spec4 == Init4 /\ [][Next]_vars

----------------------------------------------------------------------------
(* C12 *)

\* C12: whenever the first tiebreaker leaves more than one tied candidate at
\* the maximum total, the candidate declared winner by the second tiebreaker
\* is one of those first-tiebreaker maximum candidates, never a tied
\* candidate that scored strictly lower in the first tiebreaker.
C12_SecondTiebreakerAmongFirstBest ==
    \A k \in DOMAIN gens :
        LET g == gens[k]
            tied == MaxBucketSet(g.votes)
            best == FirstTiebreakerBest(g.votes, tied)
        IN  (g.pc = "done" /\ Cardinality(tied) > 1 /\ Cardinality(best) > 1
                /\ g.outcome \in Range(candidates))
               => g.outcome \in best

----------------------------------------------------------------------------
(* C13 *)

\* The ballots that no bucket of a distribution holds
Unattributed(votes) ==
    {b \in DOMAIN data : \A c \in DOMAIN votes : \A i \in DOMAIN votes[c] : votes[c][i] # b}

\* C13: the second tiebreaker runs only when the first tiebreaker yields no
\* unique maximum: a seat that ends with the note "determined by the 2nd
\* tiebreaker" had several tied candidates at the first-tiebreaker maximum.
\* When it runs and exactly one tied candidate has the maximum total of
\* ballot_size minus index over all original ballots, that candidate wins
\* with the note "determined by the 2nd tiebreaker".
C13_SecondTiebreaker ==
    [][\A k \in DOMAIN gens :
          LET tied == MaxBucketSet(gens[k].votes)
              first == FirstTiebreakerBest(gens[k].votes, tied)
              second == SecondTiebreakerBest(tied)
          IN  EndsNow(k) =>
                 /\ (Cardinality(tied) > 1 /\ Cardinality(first) > 1 /\ Cardinality(second) = 1) =>
                       /\ gens'[k].pc = "done"
                       /\ gens'[k].outcome \in second
                       /\ winners' = winners \cup second
                       /\ NotesWith(notes, gens'[k].outcome, "determined by the 2nd tiebreaker")
                 /\ (notes' # notes /\ Cardinality(first) = 1) =>
                       NotesWith(notes, gens'[k].outcome, "determined by the 1st tiebreaker")]_vars

\* A seat decided by the second tiebreaker although a ballot no tied
\* candidate holds (it is exhausted) gave the points that decided it: the
\* winner has as many points over the buckets as a tied rival
C13_Witness ==
    /\ Len(gens) > 0
    /\ cur.pc = "done"
    /\ cur.outcome \in DOMAIN notes
    /\ notes[cur.outcome] = <<"determined by the 2nd tiebreaker">>
    /\ Unattributed(cur.votes) # {}
    /\ \E c \in Range(cur.winner_list) \ {cur.outcome} :
          PointTotal(cur.votes[c], c) = PointTotal(cur.votes[cur.outcome], cur.outcome)

----------------------------------------------------------------------------
(* C14 *)

\* Both tiebreakers leave several of the candidates tied at the maximum
\* bucket size of a distribution at the maximum point total
BothTiebreakersTied(votes) ==
    LET tied == MaxBucketSet(votes)
    IN  /\ Cardinality(tied) > 1
        /\ Cardinality(FirstTiebreakerBest(votes, tied)) > 1
        /\ Cardinality(SecondTiebreakerBest(tied)) > 1

\* The step of generator k records an unresolved tie: it is exhausted without
\* raising, winners gains the one entry naming the tied candidates and no
\* candidate name, and notes is unchanged
RecordsTie(k) ==
    /\ gens'[k].pc = "done"
    /\ raised' = "None"
    /\ Range(gens'[k].winner_list) = MaxBucketSet(gens[k].votes)
    /\ winners' \ winners = {"A tie has occurred between " \o Join(gens'[k].winner_list)}
    /\ winners \subseteq winners'
    /\ (winners' \ winners) \cap Range(candidates) = {}
    /\ notes' = notes

\* C14: when both tiebreakers leave more than one candidate at the maximum,
\* exhausting the seat's sub-sequence does not raise; exactly one entry
\* "A tie has occurred between ..." naming the tied candidates is added to
\* winners, no candidate name is added and no note is recorded.
C14_UnresolvedTieRecorded ==
    [][\A k \in DOMAIN gens :
          (EndsNow(k) /\ BothTiebreakersTied(gens[k].votes)) => RecordsTie(k)]_vars

\* The same with at least one ballot in the tied buckets
C14_UnresolvedTieOfHeldBallots ==
    [][\A k \in DOMAIN gens :
          (EndsNow(k) /\ BothTiebreakersTied(gens[k].votes)
              /\ \E c \in DOMAIN gens[k].votes : gens[k].votes[c] # <<>>) => RecordsTie(k)]_vars

----------------------------------------------------------------------------
(* C15 *)

\* The unresolved-tie entries of winners
TieEntries == winners \ Range(candidates)

\* C15: after a seat ended in an unresolved tie, every remaining seat of the
\* position is still seeded and runs to completion without raising.
C15_TieDoesNotCrash ==
    TieEntries # {} =>
        /\ raised = "None"
        /\ outer_pc # "raised"
        /\ \A k \in DOMAIN gens : gens[k].pc # "raised"

----------------------------------------------------------------------------
(* A position whose ballots leave slots unranked *)

\* The longest ballot list of the position with unranked slots
MaxBallotsBlank == 3

\* A ballot handed to the runner directly: a ranking of some of the
\* candidates followed by empty strings for the unranked slots
BallotsBlank ==
    {b \in [1..Len(Names) -> Range(Names) \cup {""}] :
        /\ b[1] # ""
        /\ \A i, j \in DOMAIN b : (i < j /\ b[i] = "") => b[j] = ""
        /\ \A i, j \in DOMAIN b : (b[i] = b[j] /\ b[i] # "") => i = j}

\* The code of a slot, to enumerate ballot lists up to reordering
SlotCode(x) == IF x = "" THEN 0 ELSE NameIndex(x)

RECURSIVE BlankCode(_, _)
BlankCode(b, i) ==
    IF i > Len(b) THEN 0 ELSE SlotCode(b[i]) + (Len(Names) + 1) * BlankCode(b, i + 1)

DataBlank ==
    {d \in UNION {[1..k -> BallotsBlank] : k \in 1..MaxBallotsBlank} :
        \A i \in 1..(Len(d) - 1) : BlankCode(d[i], 1) <= BlankCode(d[i + 1], 1)}

\* __init__ called with ballots that have unranked slots
InitBlank ==
    /\ candidates = Names
    /\ ballot_size = Len(Names)
    /\ data \in DataBlank
    /\ candidates_required \in 1..2
    /\ threshold = <<1, 2>>
    /\ majority = ComputeMajority(Len(data), threshold)
    /\ eliminated = {}
    /\ winners = {}
    /\ notes = <<>>
    /\ outer_pc = "running"
    /\ gens = <<>>
    /\ raised = "None"

SpecBlank == InitBlank /\ [][Next]_vars

----------------------------------------------------------------------------
(* C16 *)

\* Every slot of ballot b names a candidate of the set out, or is empty
NoValidPreference(b, out) == \A i \in DOMAIN data[b] : data[b][i] \in out \cup {""}

\* The ballots held by the buckets of the candidates of S
HeldBy(votes, S) == UNION {Range(votes[c]) : c \in S \cap DOMAIN votes}

\* C16: when a ballot being transferred in an elimination round has no
\* remaining valid preference (every slot names an eliminated or elected
\* candidate or is an empty string), the transfer does not raise, the ballot
\* is appended to no bucket and the total of attributed ballots decreases by
\* one for each such ballot.
C16_ExhaustedDropped ==
    [][\A k \in DOMAIN gens :
          LET removed == eliminated' \ eliminated
              gone == {b \in HeldBy(gens[k].votes, removed) : NoValidPreference(b, eliminated')}
          IN  (AtSnapshot(gens[k]) /\ gens'[k] # gens[k] /\ removed # {} /\ gone # {}) =>
                 /\ raised' = "None"
                 /\ gens'[k].pc # "raised"
                 /\ HeldBy(gens'[k].votes, DOMAIN gens'[k].votes) \cap gone = {}
                 /\ TotalVotes(gens'[k].votes) = TotalVotes(gens[k].votes) - Cardinality(gone)]_vars

----------------------------------------------------------------------------
(* Construction *)

\* The value of an attribute that __init__ has not assigned
NoAttribute == "<no attribute>"

\* __init__ raising for every candidates_required >= len(candidates)
ConstructionErrorAtLeast(d, cs, required) == d = <<>> \/ required >= Len(cs)

\* __init__ checking the ballot list only
ConstructionErrorEmptyOnly(d, cs, required) == d = <<>>

\* The two checks of lines 82-86
ConstructionError(d, cs, required) == d = <<>> \/ required > Len(cs)

\* The arguments of a call of RankedChoiceRunner(...): data, candidates,
\* ballot_size, candidates_required and threshold hold the arguments until
\* __init__ stores them unchanged
InitConstruct ==
    \E n \in 1..Len(Names) :
        /\ candidates = SubSeq(Names, 1, n)
        /\ ballot_size = n
        /\ data \in DataOf(SubSeq(Names, 1, n)) \cup {<<>>}
        /\ candidates_required \in 0..(n + 1)
        /\ threshold \in Thresholds
        /\ majority = NoAttribute
        /\ eliminated = NoAttribute
        /\ winners = NoAttribute
        /\ notes = NoAttribute
        /\ outer_pc = "new"
        /\ gens = <<>>
        /\ raised = "None"

\* __init__ (lines 82-96): raise before any attribute is assigned, or assign
\* them all
Construct ==
    /\ outer_pc = "new"
    /\ IF ConstructionError(data, candidates, candidates_required)
       THEN /\ raised' = "ValueError"
            /\ outer_pc' = "raised"
            /\ UNCHANGED <<majority, eliminated, winners, notes>>
       ELSE /\ majority' = ComputeMajority(Len(data), threshold)
            /\ eliminated' = {}
            /\ winners' = {}
            /\ notes' = <<>>
            /\ outer_pc' = "running"
            /\ raised' = raised
    /\ UNCHANGED <<data, candidates, ballot_size, candidates_required, threshold, gens>>

NextConstruct == Construct \/ Next

SpecConstruct == InitConstruct /\ [][NextConstruct]_vars

----------------------------------------------------------------------------
(* C17 *)

\* C17: construction raises an error if the ballot list is empty or
\* candidates_required exceeds the number of candidates, before any
\* attribute of the runner is set and before any election logic runs; in
\* every other case it succeeds and sets the runner's state.
C17_ConstructionErrors ==
    [][outer_pc = "new" =>
          IF Len(data) = 0 \/ candidates_required > Len(candidates)
          THEN /\ raised' = "ValueError"
               /\ outer_pc' = "raised"
               /\ majority' = NoAttribute
               /\ eliminated' = NoAttribute
               /\ winners' = NoAttribute
               /\ notes' = NoAttribute
               /\ gens' = <<>>
          ELSE /\ raised' = "None"
               /\ outer_pc' = "running"
               /\ majority' \in 1..(Len(data) + 1)
               /\ eliminated' = {}
               /\ winners' = {}
               /\ notes' = <<>>
               /\ gens' = <<>>]_vars

\* A call with ballots but one seat more than there are candidates was
\* refused
C17_Witness ==
    /\ outer_pc = "raised"
    /\ raised = "ValueError"
    /\ gens = <<>>
    /\ data # <<>>
    /\ candidates_required = Len(candidates) + 1
    /\ winners = NoAttribute

----------------------------------------------------------------------------
(* C18 *)

\* C18: for every runner that passed construction, the distribution of every
\* seat keeps at least one candidate in every snapshot and at the end of its
\* elimination loop, and the winner-candidate list is non-empty: the
\* "No winners" error is never raised and the maximum of the bucket sizes is
\* never taken over an empty distribution.
C18_ZeroWinnerUnreachable ==
    \A k \in DOMAIN gens :
        LET g == gens[k] IN
        /\ DOMAIN g.votes # {}
        /\ \A i \in DOMAIN g.stages : DOMAIN g.stages[i] # {}
        /\ g.pc \in {"done", "raised"} => MaxBucketSet(g.votes) # {}
        /\ g.pc = "done" => g.winner_list # <<>>

\* A runner built with as many seats as candidates has filled its last
\* seat, whose distribution held the one candidate left
C18_Witness ==
    /\ outer_pc \in {"running", "done"}
    /\ Len(candidates) >= 2
    /\ Len(gens) = Len(candidates)
    /\ cur.pc = "done"
    /\ Cardinality(DOMAIN cur.votes) = 1
    /\ cur.winner_list = Keys(cur.votes)

----------------------------------------------------------------------------
(* A caller that pulls from the generators in any order *)

\* The longest ballot list given to the runner of this caller
MaxBallotsAnyOrder == 3

\* __init__ of the runner of this caller: three candidates, threshold 0.5
InitAnyOrder ==
    /\ candidates = Names
    /\ ballot_size = Len(Names)
    /\ data \in {d \in DataOf(Names) : Len(d) <= MaxBallotsAnyOrder}
    /\ candidates_required \in 1..Len(Names)
    /\ threshold = <<1, 2>>
    /\ majority = ComputeMajority(Len(data), threshold)
    /\ eliminated = {}
    /\ winners = {}
    /\ notes = <<>>
    /\ outer_pc = "running"
    /\ gens = <<>>
    /\ raised = "None"

\* The generator of run_election can be resumed: it has not returned and no
\* exception ended the caller
OuterResumable == raised = "None" /\ outer_pc = "running"

\* next() on the generator of run_election, whatever the state of the seats
\* obtained so far
AnyOrderYield == OuterResumable /\ YieldSeat

AnyOrderRaise == OuterResumable /\ RaiseInSeeding

AnyOrderReturn == OuterResumable /\ LoopExhausted

\* next() on the generator of any seat obtained so far
AnyOrderStart == raised = "None" /\ \E k \in DOMAIN gens : RunoffStartOf(k)

AnyOrderRound == raised = "None" /\ \E k \in DOMAIN gens : RunoffRoundOf(k)

AnyOrderFinish == raised = "None" /\ \E k \in DOMAIN gens : RunoffFinishOf(k)

NextAnyOrder ==
    \/ AnyOrderYield
    \/ AnyOrderRaise
    \/ AnyOrderReturn
    \/ AnyOrderStart
    \/ AnyOrderRound
    \/ AnyOrderFinish

SpecAnyOrder == InitAnyOrder /\ [][NextAnyOrder]_vars

----------------------------------------------------------------------------
(* C19 *)

\* The generator of seat k was obtained and is not exhausted
PartlyConsumed(k) == gens[k].pc \in {"start", "y174", "y193"}

\* The step is the resumption after the last snapshot of some sub-sequence
ExhaustingResumption == \E k \in DOMAIN gens : AtSnapshot(gens[k]) /\ gens'[k].pc = "done"

\* winners and notes change only at the resumption that follows the last
\* snapshot of a sub-sequence
C19_WinnersChangeOnlyAtExhaustion ==
    [][(winners' # winners \/ notes' # notes) => ExhaustingResumption]_vars

\* C19: winners and notes change only at the resumption that follows the
\* last snapshot of a sub-sequence; obtaining a seat's sub-sequence or
\* pulling some of its snapshots without exhausting it leaves winners and
\* notes as they were and leaves the runner in a state from which no later
\* operation raises.
C19_EarlyStopTolerated ==
    [][/\ (winners' # winners \/ notes' # notes) => ExhaustingResumption
       /\ (\E k \in DOMAIN gens : PartlyConsumed(k)) => raised' = "None"]_vars

----------------------------------------------------------------------------
(* C20 *)

\* The position has one candidate
Unopposed == Len(candidates) = 1

\* The sequence of the seat of an unopposed candidate in the next state: at
\* most one snapshot, whose bucket holds all ballots; no elimination and no
\* exception; once exhausted the candidate is the winner, without a note
UnopposedSeatNext ==
    \A k \in DOMAIN gens' :
        LET g == gens'[k] IN
        /\ Len(g.stages) <= 1
        /\ \A i \in DOMAIN g.stages :
              /\ DOMAIN g.stages[i] = {candidates[1]}
              /\ Len(g.stages[i][candidates[1]]) = Len(data)
        /\ g.pc \in {"start", "y174", "done"}
        /\ eliminated' = {}
        /\ g.pc = "done" =>
              /\ g.outcome = candidates[1]
              /\ winners' = {candidates[1]}
              /\ notes' = <<>>

\* The original wording of C20: the first snapshot's bucket of a candidate
\* running unopposed holds all ballots and exceeds majority.
C20_UnopposedExceedsMajority ==
    (Unopposed /\ gens # <<>>) =>
        \A i \in DOMAIN gens[1].stages :
            /\ Len(gens[1].stages[i][candidates[1]]) = Len(data)
            /\ Len(gens[1].stages[i][candidates[1]]) > majority

\* C20: a candidate running unopposed is the immediate winner whether or not
\* the bucket exceeds majority: the first snapshot's bucket holds all
\* ballots, the resumption after it ends the sequence (exactly one snapshot,
\* no elimination round) and adds the candidate to winners with no note.
C20_UnopposedWinsAtOnce ==
    [][Unopposed =>
          /\ UnopposedSeatNext
          /\ \A k \in DOMAIN gens : (AtSnapshot(gens[k]) /\ gens'[k] # gens[k]) => gens'[k].pc = "done"]_vars

\* An unopposed candidate won although the bucket of all ballots did not
\* exceed majority
C20_Witness ==
    /\ Unopposed
    /\ gens # <<>>
    /\ gens[1].pc = "done"
    /\ Len(gens[1].stages) = 1
    /\ Len(data) <= majority
    /\ winners = {candidates[1]}

----------------------------------------------------------------------------
(* One complete run with a fixed iteration order *)

\* One iteration order of a set, the same for every call
SomeOrder(S) == CHOOSE o \in Orders(S) : TRUE

\* Lines 141-155 for a seat seeded with the winners wins, iterated in the
\* fixed order
RefSeed(wins) ==
    IF \E b \in DOMAIN data : data[b][1] \notin Range(candidates)
    THEN [votes |-> <<>>, raised |-> "KeyError", dropped |-> 0, eliminated |-> {}]
    ELSE LET t == TransferVotes(InitialVotes, SomeOrder(wins), {})
         IN  IF t.raised # "None" THEN t
             ELSE [t EXCEPT !.votes = DeleteCandidates(t.votes, wins)]

\* Lines 176-212 run to the end of the generator, the candidates eliminated
\* together iterated in the fixed order: the record of DeclareOutcome, or
\* the exception of a transfer
RECURSIVE RefRunoff(_, _)
RefRunoff(votes, elim) ==
    IF HasMajority(votes) \/ DOMAIN votes = {} \/ FullTie(votes)
    THEN DeclareOutcome(votes)
    ELSE LET order == SomeOrder(SelectRemovableCandidates(votes))
             t == TransferVotes(votes, order, elim)
         IN  IF t.raised # "None"
             THEN [raised |-> t.raised, winner_list |-> <<>>, winner |-> "None", note |-> 0]
             ELSE RefRunoff(DeleteCandidates(t.votes, Range(order)), t.eliminated)

\* run_election with every seat exhausted before the next, from seat k on
RECURSIVE RefElection(_, _, _)
RefElection(k, wins, nts) ==
    IF k > candidates_required
    THEN [winners |-> wins, notes |-> nts, raised |-> "None"]
    ELSE LET s == RefSeed(wins) IN
         IF s.raised # "None"
         THEN [winners |-> wins, notes |-> nts, raised |-> s.raised]
         ELSE LET o == RefRunoff(s.votes, s.eliminated) IN
              IF o.raised # "None"
              THEN [winners |-> wins, notes |-> nts, raised |-> o.raised]
              ELSE RefElection(k + 1, wins \cup {o.winner},
                               IF o.note = 0 THEN nts
                               ELSE AddNote(nts, o.winner, TiebreakerNote(o.note)))

\* The result of the complete run in the fixed order
ReferenceRun == RefElection(1, {}, <<>>)

\* The run is over: run_election returned or an exception ended it
RunOver == outer_pc = "done" \/ raised # "None"

----------------------------------------------------------------------------
(* C21 *)

\* C21: every complete run on the same ballots, candidates and configuration
\* ends with the same winners and the same notes (or the same exception),
\* whatever the order in which the candidates eliminated together and the
\* previous winners are iterated during the transfers.
C21_Determinism ==
    RunOver =>
        /\ winners = ReferenceRun.winners
        /\ notes = ReferenceRun.notes
        /\ raised = ReferenceRun.raised

\* A complete run of three seats in which the third seat was seeded with the
\* two winners iterated in the order other than the fixed one, so that its
\* buckets received their ballots in a different order
C21_Witness ==
    /\ outer_pc = "done"
    /\ Len(gens) = 3
    /\ gens[3].pc = "done"
    /\ gens[3].stages[1] # RefSeed({gens[1].outcome, gens[2].outcome}).votes
    /\ winners = ReferenceRun.winners

----------------------------------------------------------------------------
(* C22 *)

\* The outcomes declared by the seats obtained so far
Outcomes == {gens[k].outcome : k \in DOMAIN gens}

\* C22: RankedChoiceApplication.run and run_election_display exhaust each
\* seat's sub-sequence before they request the next seat from run_election:
\* every seat is seeded with the winners of all earlier seats recorded (and
\* out of its distribution), and when run_election has returned and the
\* report is written winners holds one entry per seat.
C22_SeatsExhaustedInOrder ==
    [][/\ Len(gens') > Len(gens) =>
             \A k \in DOMAIN gens :
                 /\ gens[k].pc = "done"
                 /\ gens[k].outcome \in winners
                 /\ gens[k].outcome \notin DOMAIN gens'[Len(gens')].votes
       /\ outer_pc' = "done" =>
             /\ \A k \in DOMAIN gens : gens[k].pc = "done"
             /\ Len(gens) = candidates_required
             /\ winners' = Outcomes
             /\ Cardinality(winners') = candidates_required]_vars

\* The report of a position with three seats is written: run_election
\* returned after three exhausted seats
C22_Witness ==
    /\ outer_pc = "done"
    /\ candidates_required = 3
    /\ Len(gens) = 3
    /\ Cardinality(winners) = 3
    /\ \A k \in DOMAIN gens : gens[k].pc = "done"

----------------------------------------------------------------------------
(* C23 *)

\* The candidates removed from the distribution of seat k by its earlier
\* rounds
RemovedEarlier(k) == DOMAIN gens[k].stages[1] \ DOMAIN gens[k].votes

\* The step is an elimination round of the generator of seat k
RoundOf(k) ==
    /\ NoMajorityAtSnapshot(gens[k])
    /\ MinimumSet(gens[k].votes) # DOMAIN gens[k].votes
    /\ gens'[k] # gens[k]

\* C23: in whatever order the caller pulls from run_election and from the
\* seats' sequences, the eliminated set an elimination round of a seat works
\* with contains every candidate removed by the earlier rounds of that seat,
\* and the transfer of the round does not target a candidate already deleted
\* from that seat's distribution (which raises KeyError).
C23_EliminatedCoversEarlierRounds ==
    [][\A k \in DOMAIN gens :
          RoundOf(k) =>
             /\ RemovedEarlier(k) \subseteq eliminated'
             /\ raised' # "KeyError"
             /\ gens'[k].pc = "y193"]_vars

----------------------------------------------------------------------------
(* C24 *)

\* The note added in this step to the list of winner w is one of the two
\* tiebreaker notes
TiebreakerNoteAdded(w) ==
    \/ NotesWith(notes, w, "determined by the 1st tiebreaker")
    \/ NotesWith(notes, w, "determined by the 2nd tiebreaker")

\* C24: the candidate added to winners for a seat is one of the remaining
\* candidates whose bucket has the maximum size in the seat's final
\* snapshot: the only such candidate, with no note, when there is exactly
\* one, and otherwise the candidate the tiebreaker chose among them, with
\* the tiebreaker's note.
C24_WinnerHasMaximumBucket ==
    [][\A k \in DOMAIN gens :
          LET top == MaxBucketSet(LastStage(gens[k]))
              w == gens'[k].outcome
          IN  (EndsNow(k) /\ gens'[k].pc = "done" /\ w \in Range(candidates)) =>
                 /\ w \in top
                 /\ winners' = winners \cup {w}
                 /\ IF Cardinality(top) = 1
                    THEN notes' = notes /\ w \notin DOMAIN notes'
                    ELSE TiebreakerNoteAdded(w)]_vars

\* A seat won on a majority while another candidate with a smaller bucket
\* was still in the final snapshot
C24_Witness ==
    /\ Len(gens) > 0
    /\ cur.pc = "done"
    /\ MaxBucketSet(LastStage(cur)) = {cur.outcome}
    /\ \E c \in DOMAIN LastStage(cur) :
          /\ LastStage(cur)[c] # <<>>
          /\ Len(LastStage(cur)[c]) < Len(LastStage(cur)[cur.outcome])
    /\ cur.outcome \in winners
    /\ cur.outcome \notin DOMAIN notes

----------------------------------------------------------------------------
(* A caller that mutates the snapshots it receives *)

\* The caller empties, in place, the bucket list of candidate c in the
\* snapshot it has just received from the current generator, before it
\* resumes the generator (snapshot[c].clear()); a list object shared with the working
\* distribution or with other snapshots is emptied there too
MutateSnapshot ==
    /\ raised = "None"
    /\ gens # <<>>
    /\ AtSnapshot(cur)
    /\ \E c \in DOMAIN LastStage(cur) :
          LET n == Len(cur.stages)
              is_shared == c \in cur.shared[n]
          IN  /\ LastStage(cur)[c] # <<>>
              /\ gens' = [gens EXCEPT ![Len(gens)] =
                   [@ EXCEPT !.stages = [i \in DOMAIN cur.stages |->
                                           IF i = n \/ (is_shared /\ c \in cur.shared[i])
                                           THEN [cur.stages[i] EXCEPT ![c] = <<>>]
                                           ELSE cur.stages[i]],
                             !.votes = IF is_shared /\ c \in DOMAIN cur.votes
                                       THEN [cur.votes EXCEPT ![c] = <<>>]
                                       ELSE cur.votes]]
    /\ UNCHANGED <<config, eliminated, winners, notes, outer_pc, raised>>

NextSnapshot == Next \/ MutateSnapshot

\* The runner of InitAnyOrder driven seat by seat by a caller that may empty
\* buckets of the snapshots it receives
SpecSnapshot == InitAnyOrder /\ [][NextSnapshot]_vars

----------------------------------------------------------------------------
(* C25 *)

\* The step is made by the runner: a generator was obtained, advanced or
\* ended
RunnerStep ==
    \/ Len(gens') # Len(gens)
    \/ outer_pc' # outer_pc
    \/ raised' # raised
    \/ \E k \in DOMAIN gens :
          \/ gens'[k].pc # gens[k].pc
          \/ Len(gens'[k].stages) # Len(gens[k].stages)

\* C25: a snapshot already emitted (its keys and the ballot list of each
\* bucket) is not changed by any later elimination, transfer or candidate
\* removal of that seat or of a later seat, and a caller that mutates the
\* bucket lists of an emitted snapshot does not change the working
\* distribution of the runner.
C25_SnapshotsImmutable ==
    [][\A k \in DOMAIN gens :
          /\ RunnerStep => \A i \in DOMAIN gens[k].stages : gens'[k].stages[i] = gens[k].stages[i]
          /\ ~RunnerStep => gens'[k].votes = gens[k].votes]_vars

\* The first snapshot keeps the smaller bucket it was emitted with although
\* a round has since transferred ballots into the working bucket, and the
\* bucket the caller emptied in the second snapshot is still full in the
\* working distribution
C25_Witness ==
    /\ Len(gens) > 0
    /\ cur.pc = "y193"
    /\ Len(cur.stages) = 2
    /\ \E c \in DOMAIN cur.votes :
          /\ cur.stages[1][c] # <<>>
          /\ Len(cur.stages[1][c]) < Len(cur.votes[c])
          /\ cur.stages[2][c] = <<>>

----------------------------------------------------------------------------
(* reset() *)

\* The number of complete runs of one runner
MaxRuns == 2

\* Lines 163-164: reset() assigns new empty sets to _eliminated and winners
ResetFields ==
    /\ eliminated' = {}
    /\ winners' = {}
    /\ notes' = notes

\* After a completed run the caller calls reset() and then run_election()
\* again, which makes a new generator
Reset ==
    /\ raised = "None"
    /\ outer_pc = "done"
    /\ \A w \in DOMAIN notes : Len(notes[w]) < MaxRuns
    /\ ResetFields
    /\ outer_pc' = "running"
    /\ gens' = <<>>
    /\ UNCHANGED <<config, raised>>

NextReset == Next \/ Reset

SpecReset == InitAnyOrder /\ [][NextReset]_vars

----------------------------------------------------------------------------
(* C26 *)

\* C26: after a completed run followed by reset(), running run_election to
\* completion on the same runner yields the winners and the per-winner
\* notes that a freshly constructed runner with the same arguments yields:
\* no winner, eliminated candidate or note of the earlier run survives.
C26_ResetGivesFreshRun ==
    (outer_pc = "done" /\ raised = "None") =>
        /\ winners = ReferenceRun.winners
        /\ notes = ReferenceRun.notes

\* The same for winners alone
C26_ResetGivesFreshWinners ==
    (outer_pc = "done" /\ raised = "None") => winners = ReferenceRun.winners

----------------------------------------------------------------------------
(* C27 *)

\* C27: the tiebreaker procedure always ends with a single winner or with
\* the recorded unresolved-tie entry and never raises out of the seat's
\* sub-sequence, also when every tied candidate's bucket is empty and when
\* the tied candidates appear on no original ballot.
C27_TiebreakerNeverRaises ==
    [][\A k \in DOMAIN gens :
          LET tied == MaxBucketSet(gens[k].votes) IN
          (EndsNow(k) /\ Cardinality(tied) > 1) =>
             /\ raised' = "None"
             /\ gens'[k].pc = "done"
             /\ \/ gens'[k].outcome \in tied
                \/ gens'[k].outcome = "A tie has occurred between " \o Join(gens'[k].winner_list)
             /\ winners' = winners \cup {gens'[k].outcome}]_vars

\* The same for ties in which some tied candidate holds a ballot
C27_TiebreakerOfHeldBallots ==
    [][\A k \in DOMAIN gens :
          LET tied == MaxBucketSet(gens[k].votes) IN
          (EndsNow(k) /\ Cardinality(tied) > 1 /\ \E c \in tied : gens[k].votes[c] # <<>>) =>
             /\ raised' = "None"
             /\ gens'[k].pc = "done"
             /\ \/ gens'[k].outcome \in tied
                \/ gens'[k].outcome = "A tie has occurred between " \o Join(gens'[k].winner_list)
             /\ winners' = winners \cup {gens'[k].outcome}]_vars

----------------------------------------------------------------------------
(* C28 *)

\* Every ballot ranks all candidates
CompleteRankings ==
    \A b \in DOMAIN data : \A i, j \in DOMAIN data[b] : data[b][i] = data[b][j] => i = j

\* Candidate c holds more than half of the position's ballots in snapshot
\* snap
HoldsMoreThanHalf(snap, c) == c \in DOMAIN snap /\ 2 * Len(snap[c]) > Len(data)

\* C28: with threshold 0.5 and every ballot ranking all candidates, a
\* candidate that holds more than half of the position's ballots at some
\* snapshot of a seat is in every later snapshot of the seat (never
\* eliminated) and is the seat's winner, declared without a tiebreaker,
\* also when its count does not exceed majority = floor(N/2) + 1 at that
\* snapshot.
C28_MajorityCriterion ==
    (threshold = <<1, 2>> /\ CompleteRankings) =>
        \A k \in DOMAIN gens : \A r \in DOMAIN gens[k].stages : \A c \in DOMAIN gens[k].stages[r] :
            HoldsMoreThanHalf(gens[k].stages[r], c) =>
               /\ \A q \in r..Len(gens[k].stages) : c \in DOMAIN gens[k].stages[q]
               /\ c \in DOMAIN gens[k].votes
               /\ gens[k].pc # "raised"
               /\ gens[k].pc = "done" =>
                     /\ gens[k].outcome = c
                     /\ gens[k].winner_list = <<c>>
                     /\ c \in winners
                     /\ c \notin DOMAIN notes

\* A seat won by a candidate that held more than half of the ballots in the
\* first snapshot, where its count equalled majority, so that a round
\* followed
C28_Witness ==
    /\ threshold = <<1, 2>>
    /\ CompleteRankings
    /\ Len(gens) > 0
    /\ cur.pc = "done"
    /\ Len(cur.stages) >= 2
    /\ HoldsMoreThanHalf(cur.stages[1], cur.outcome)
    /\ Len(cur.stages[1][cur.outcome]) = majority
    /\ \E d \in DOMAIN cur.stages[1] \ {cur.outcome} : cur.stages[1][d] # <<>>

====
